---------------------------- MODULE Spec2Model ----------------------------
(***************************************************************************)
(* A model of schumaker_spline(x, y, s, return_type) of                    *)
(* src/schumaker_spline.py, and of the evaluation of the Piecewise         *)
(* expression it builds for return_type = 'sympy'.                         *)
(*                                                                         *)
(* Numbers are exact rationals <<num, den>> in lowest terms with den > 0.  *)
(* <<0, 0>> is NaN: the outcome of a division by zero, which every         *)
(* operation propagates and every comparison answers FALSE to.             *)
(* Sequences are 1-based: the source's x[i], i in 0..n-1, is x[i+1] here,  *)
(* and the source's interval i is interval i+1 here.                       *)
(***************************************************************************)
EXTENDS Integers, Sequences, FiniteSets

(***************************************************************************)
(* Bounds of the model.                                                    *)
(***************************************************************************)
\* the longest input x
MaxN == 4
\* np.sqrt is computed to the grid 1/SqrtScale (rounded down); it is exact
\* on the squares of that grid
SqrtScale == 10
\* the gaps x[i+1] - x[i] of an ascending x
GoodGaps == {1, 2}
\* the gaps of any x: 0 is a repeated abscissa, -1 a descending one
XGaps == {-1, 0} \cup GoodGaps
\* the values of y and of the caller's slopes, for an input the asserts
\* accept
YVals == {0, 1, 4}
SVals == {0, 1}
\* the values of y beside an x or a length the asserts may refuse
BadVals == {0, 1}

(***************************************************************************)
(* Exact rational arithmetic, standing for the float64 arithmetic of the   *)
(* numpy arrays.                                                           *)
(***************************************************************************)
NaN == <<0, 0>>

IsNaN(a) == a[2] = 0

Abs(k) == IF k < 0 THEN -k ELSE k

RECURSIVE GCD(_, _)
GCD(a, b) == IF b = 0 THEN a ELSE GCD(b, a % b)

Norm(num, den) ==
    IF den = 0 THEN NaN
    ELSE LET g == GCD(Abs(num), Abs(den))
             sg == IF den < 0 THEN -1 ELSE 1
         IN  <<(sg * num) \div g, (sg * den) \div g>>

Q(k) == <<k, 1>>

RAdd(a, b) == IF IsNaN(a) \/ IsNaN(b) THEN NaN
              ELSE Norm(a[1] * b[2] + b[1] * a[2], a[2] * b[2])

RSub(a, b) == IF IsNaN(a) \/ IsNaN(b) THEN NaN
              ELSE Norm(a[1] * b[2] - b[1] * a[2], a[2] * b[2])

RMul(a, b) == IF IsNaN(a) \/ IsNaN(b) THEN NaN
              ELSE Norm(a[1] * b[1], a[2] * b[2])

RDiv(a, b) == IF IsNaN(a) \/ IsNaN(b) THEN NaN
              ELSE Norm(a[1] * b[2], a[2] * b[1])

RAbs(a) == <<Abs(a[1]), a[2]>>

RLt(a, b) == ~IsNaN(a) /\ ~IsNaN(b) /\ a[1] * b[2] < b[1] * a[2]

RLe(a, b) == ~IsNaN(a) /\ ~IsNaN(b) /\ a[1] * b[2] <= b[1] * a[2]

\* == on floats: NaN equals nothing, itself included
REq(a, b) == ~IsNaN(a) /\ ~IsNaN(b) /\ a = b

ISqrt(v) == CHOOSE r \in 0..v : r * r <= v /\ (r + 1) * (r + 1) > v

\* np.sqrt of a non-negative number: sqrt(n/d) = sqrt(n*d)/d
RSqrt(a) == IF IsNaN(a) \/ a[1] < 0 THEN NaN
            ELSE Norm(ISqrt(a[1] * a[2] * SqrtScale * SqrtScale), a[2] * SqrtScale)

(***************************************************************************)
(* The stages of schumaker_spline as operators.                            *)
(***************************************************************************)
\* np.diff(a)
Diff(a) == [k \in 1..(IF Len(a) = 0 THEN 0 ELSE Len(a) - 1) |-> RSub(a[k + 1], a[k])]

\* a faulty variant of Ascending: >= 0 for > 0, which lets a repeated
\* abscissa through
AscendingNonStrict(xs) == \A k \in DOMAIN Diff(xs) : RLe(Q(0), Diff(xs)[k])

\* np.all(np.diff(x) > 0)
Ascending(xs) == \A k \in DOMAIN Diff(xs) : RLt(Q(0), Diff(xs)[k])

\* the three asserts, in the order the source makes them
AssertsPass(xs, ys, ss, none) ==
    /\ Len(ys) = Len(xs)
    /\ Ascending(xs)
    /\ (~none => Len(ss) = Len(xs))

\* L = np.sqrt(np.diff(x)**2 + np.diff(y)**2)
Chord(xs, ys) ==
    [k \in DOMAIN Diff(xs) |->
        RSqrt(RAdd(RMul(Diff(xs)[k], Diff(xs)[k]), RMul(Diff(ys)[k], Diff(ys)[k])))]

\* delta = np.diff(y) / np.diff(x)
Secants(xs, ys) == [k \in DOMAIN Diff(xs) |-> RDiv(Diff(ys)[k], Diff(xs)[k])]

\* the slope at the interior point k (source index k-1), from the secants
\* and chords on its two sides
InteriorSlope(L, d, k) ==
    IF RLt(Q(0), RMul(d[k - 1], d[k]))
    THEN RDiv(RAdd(RMul(L[k - 1], d[k - 1]), RMul(L[k], d[k])), RAdd(L[k - 1], L[k]))
    ELSE Q(0)

\* (3*d - t) / 2, the one-sided rule of the two endpoint slopes
EndSlope(d, t) == RDiv(RSub(RMul(Q(3), d), t), Q(2))

\* the slopes the routine estimates, for n >= 2: zeros, then the interior
\* points, then s[0] from s[1] as it stands, then s[n-1] from s[n-2] as it
\* stands
EstimatedSlopes(xs, ys) ==
    LET n == Len(xs)
        L == Chord(xs, ys)
        d == Secants(xs, ys)
        s0 == [k \in 1..n |-> IF 1 < k /\ k < n THEN InteriorSlope(L, d, k) ELSE Q(0)]
        s1 == [s0 EXCEPT ![1] = EndSlope(d[1], s0[2])]
    IN  [s1 EXCEPT ![n] = EndSlope(d[n - 1], s1[n - 1])]

\* (y[i+1] - y[i]) / (x[i+1] - x[i])
Secant(xs, ys, k) == RDiv(RSub(ys[k + 1], ys[k]), RSub(xs[k + 1], xs[k]))

\* "the lemma is satisfied": (s[i] + s[i+1]) / 2 == the secant slope
Lemma(xs, ys, ss, k) == REq(RDiv(RAdd(ss[k], ss[k + 1]), Q(2)), Secant(xs, ys, k))

\* a faulty variant of Branch: the test for the midpoint is left out
BranchNoMidpoint(ss, d, k) ==
    IF RLt(RAbs(RSub(ss[k + 1], d[k])), RAbs(RSub(ss[k], d[k]))) THEN "right"
    ELSE "left"

\* which of the three knot placements interval k takes
Branch(ss, d, k) ==
    IF RLe(Q(0), RMul(RSub(ss[k], d[k]), RSub(ss[k + 1], d[k]))) THEN "mid"
    ELSE IF RLt(RAbs(RSub(ss[k + 1], d[k])), RAbs(RSub(ss[k], d[k]))) THEN "right"
    ELSE "left"

\* the knot e inserted in interval k
KnotE(xs, ss, d, k) ==
    LET h2 == RMul(Q(2), RSub(xs[k + 1], xs[k]))
        ds == RSub(ss[k + 1], ss[k])
    IN  CASE Branch(ss, d, k) = "mid" ->
               RDiv(RAdd(xs[k], xs[k + 1]), Q(2))
          [] Branch(ss, d, k) = "right" ->
               LET e_temp == RAdd(xs[k], RDiv(RMul(h2, RSub(ss[k + 1], d[k])), ds))
               IN  RDiv(RAdd(xs[k], e_temp), Q(2))
          [] Branch(ss, d, k) = "left" ->
               LET e_temp == RAdd(xs[k + 1], RDiv(RMul(h2, RSub(ss[k], d[k])), ds))
               IN  RDiv(RAdd(xs[k + 1], e_temp), Q(2))

\* a faulty variant of SBar: the factor 2 of y[i+1] - y[i] is left out
SBarMissingTwo(xs, ys, ss, k, e) ==
    LET alpha == RSub(e, xs[k])
        beta == RSub(xs[k + 1], e)
    IN  RDiv(RSub(RSub(ys[k + 1], ys[k]),
                  RAdd(RMul(alpha, ss[k]), RMul(beta, ss[k + 1]))),
             RSub(xs[k + 1], xs[k]))

\* s_bar of interval k with the knot e
SBar(xs, ys, ss, k, e) ==
    LET alpha == RSub(e, xs[k])
        beta == RSub(xs[k + 1], e)
    IN  RDiv(RSub(RMul(Q(2), RSub(ys[k + 1], ys[k])),
                  RAdd(RMul(alpha, ss[k]), RMul(beta, ss[k + 1]))),
             RSub(xs[k + 1], xs[k]))

\* a faulty variant of Case1Coeffs: the factor 2 of the divisor is left out
Case1CoeffsMissingTwo(xs, ys, ss, k) ==
    <<ys[k], ss[k], RDiv(RSub(ss[k + 1], ss[k]), RSub(xs[k + 1], xs[k]))>>

\* the single triple of an interval that satisfies the lemma
Case1Coeffs(xs, ys, ss, k) ==
    <<ys[k], ss[k], RDiv(RSub(ss[k + 1], ss[k]), RMul(Q(2), RSub(xs[k + 1], xs[k])))>>

\* the two triples of an interval split at e
Case2Coeffs(xs, ys, ss, k, e) ==
    LET alpha == RSub(e, xs[k])
        beta == RSub(xs[k + 1], e)
        s_bar == SBar(xs, ys, ss, k, e)
        A1 == ys[k]
        B1 == ss[k]
        C1 == RDiv(RSub(s_bar, ss[k]), RMul(Q(2), alpha))
        A2 == RAdd(RAdd(A1, RMul(alpha, B1)), RMul(RMul(alpha, alpha), C1))
        B2 == s_bar
        C2 == RDiv(RSub(ss[k + 1], s_bar), RMul(Q(2), beta))
    IN  << <<A1, B1, C1>>, <<A2, B2, C2>> >>

\* a + b*(x - t) + c*(x - t)**2
Quadratic(abc, t, at) ==
    RAdd(RAdd(abc[1], RMul(abc[2], RSub(at, t))),
         RMul(abc[3], RMul(RSub(at, t), RSub(at, t))))

\* the pieces of the Piecewise: the triple, its left knot, and the closed
\* condition t <= x <= knots[i+1]
Pieces(ks, cs) ==
    [j \in 1..(Len(ks) - 1) |-> [abc |-> cs[j], t |-> ks[j], lo |-> ks[j], hi |-> ks[j + 1]]]

\* the pieces whose condition holds at the point at
Holding(ps, at) == {j \in DOMAIN ps : RLe(ps[j].lo, at) /\ RLe(at, ps[j].hi)}

\* Piecewise.subs: the first piece whose condition holds, and nan when none
\* does
PiecewiseAt(ps, at) ==
    IF Holding(ps, at) = {} THEN NaN
    ELSE LET j == CHOOSE m \in Holding(ps, at) : \A o \in Holding(ps, at) : m <= o
         IN  Quadratic(ps[j].abc, ps[j].t, at)

(***************************************************************************)
(* The state of one call, and of one evaluation of its result.             *)
(***************************************************************************)
VARIABLES
    x, y,          \* the arguments x and y, as arrays
    s,             \* the slopes: the argument s, or the estimated ones
    sIsNone,       \* whether the argument s was None
    return_type,   \* the argument return_type
    delta,         \* the local delta, and whether it has been assigned
    deltaBound,
    i,             \* the interval the loop of line 42 is at
    knots, coeffs, \* the two lists the loop fills
    pieces,        \* the Piecewise returned for return_type = 'sympy'
    pc,            \* where the call is
    err,           \* the exception the call raised, or "none"
    q, value       \* the point the Piecewise was evaluated at, and the result

vars == <<x, y, s, sIsNone, return_type, delta, deltaBound, i, knots, coeffs,
          pieces, pc, err, q, value>>

n == Len(x)

\* the arrays of length m with x[0] = 0 and gaps from the set gaps
RECURSIVE XSeqs(_, _)
XSeqs(m, gaps) ==
    IF m = 0 THEN {<< >>}
    ELSE IF m = 1 THEN {<<Q(0)>>}
    ELSE {Append(p, RAdd(p[m - 1], Q(g))) : p \in XSeqs(m - 1, gaps), g \in gaps}

SeqsOver(vals, m) == {[k \in 1..m |-> Q(f[k])] : f \in [1..m -> vals]}

\* the lengths tried for y and s beside an x of length m: the same, and one
\* less
Lens(m) == {m} \cup (IF m > 0 THEN {m - 1} ELSE {})

\* the argument s: None, or an array over vals of a length of lens
SlopesArg(vals, lens) ==
    \/ sIsNone = TRUE /\ s = << >>
    \/ sIsNone = FALSE /\ \E ms \in lens : s \in SeqsOver(vals, ms)

ReturnTypes == {"coeffs", "sympy"}

\* the calls: every ascending x with every y of its length, without slopes
\* and with every slope array of its length; and every x, ascending or
\* not, with y and s of its length or one shorter
Init ==
    /\ \E m \in 0..MaxN :
          \/ /\ x \in XSeqs(m, GoodGaps)
             /\ y \in SeqsOver(YVals, m)
             /\ SlopesArg(SVals, {m})
          \/ /\ x \in XSeqs(m, XGaps)
             /\ \E my \in Lens(m) : y \in SeqsOver(BadVals, my)
             /\ SlopesArg({0}, Lens(m))
    /\ return_type \in ReturnTypes
    /\ delta = << >>
    /\ deltaBound = FALSE
    /\ i = 1
    /\ knots = << >>
    /\ coeffs = << >>
    /\ pieces = << >>
    /\ pc = "start"
    /\ err = "none"
    /\ q = NaN
    /\ value = NaN

Raise(e) == pc' = "raised" /\ err' = e

\* lines 19-25, the asserts passing
Validate ==
    /\ pc = "start"
    /\ AssertsPass(x, y, s, sIsNone)
    /\ pc' = "estimate"
    /\ UNCHANGED <<x, y, s, sIsNone, return_type, delta, deltaBound, i, knots,
                   coeffs, pieces, err, q, value>>

\* lines 19-25, an assert failing
ValidateRaise ==
    /\ pc = "start"
    /\ ~AssertsPass(x, y, s, sIsNone)
    /\ Raise("AssertionError")
    /\ UNCHANGED <<x, y, s, sIsNone, return_type, delta, deltaBound, i, knots,
                   coeffs, pieces, q, value>>

\* line 28 with s given: the estimation is skipped, delta stays unassigned
SlopesGiven ==
    /\ pc = "estimate"
    /\ ~sIsNone
    /\ pc' = "loop"
    /\ UNCHANGED <<x, y, s, sIsNone, return_type, delta, deltaBound, i, knots,
                   coeffs, pieces, err, q, value>>

\* lines 28-38
Estimate ==
    /\ pc = "estimate"
    /\ sIsNone
    /\ n >= 2
    /\ s' = EstimatedSlopes(x, y)
    /\ delta' = Secants(x, y)
    /\ deltaBound' = TRUE
    /\ pc' = "loop"
    /\ UNCHANGED <<x, y, sIsNone, return_type, i, knots, coeffs, pieces, err,
                   q, value>>

\* lines 28-37 with n < 2: delta is empty and delta[0] raises
EstimateRaise ==
    /\ pc = "estimate"
    /\ sIsNone
    /\ n < 2
    /\ s' = [k \in 1..n |-> Q(0)]
    /\ delta' = Secants(x, y)
    /\ deltaBound' = TRUE
    /\ Raise("IndexError")
    /\ UNCHANGED <<x, y, sIsNone, return_type, i, knots, coeffs, pieces, q, value>>

\* lines 43-49: interval i satisfies the lemma
LemmaCase ==
    /\ pc = "loop"
    /\ i <= n - 1
    /\ Lemma(x, y, s, i)
    /\ knots' = Append(knots, x[i])
    /\ coeffs' = Append(coeffs, Case1Coeffs(x, y, s, i))
    /\ i' = i + 1
    /\ UNCHANGED <<x, y, s, sIsNone, return_type, delta, deltaBound, pieces, pc,
                   err, q, value>>

\* lines 43-81: interval i is split at a new knot
Subdivide ==
    /\ pc = "loop"
    /\ i <= n - 1
    /\ ~Lemma(x, y, s, i)
    /\ deltaBound
    /\ LET e == KnotE(x, s, delta, i)
       IN  /\ knots' = knots \o <<x[i], e>>
           /\ coeffs' = coeffs \o Case2Coeffs(x, y, s, i, e)
    /\ i' = i + 1
    /\ UNCHANGED <<x, y, s, sIsNone, return_type, delta, deltaBound, pieces, pc,
                   err, q, value>>

\* lines 43-52 with s given: delta was never assigned, and reading it raises
SubdivideRaise ==
    /\ pc = "loop"
    /\ i <= n - 1
    /\ ~Lemma(x, y, s, i)
    /\ ~deltaBound
    /\ knots' = Append(knots, x[i])
    /\ Raise("UnboundLocalError")
    /\ UNCHANGED <<x, y, s, sIsNone, return_type, delta, deltaBound, i, coeffs,
                   pieces, q, value>>

\* lines 83-96
Return ==
    /\ pc = "loop"
    /\ i > n - 1
    /\ n >= 1
    /\ return_type = "sympy" => Len(coeffs) > 0
    /\ knots' = Append(knots, x[n])
    /\ pieces' = IF return_type = "sympy" THEN Pieces(knots', coeffs) ELSE << >>
    /\ pc' = "returned"
    /\ UNCHANGED <<x, y, s, sIsNone, return_type, delta, deltaBound, i, coeffs,
                   err, q, value>>

\* line 83 with n = 0: x[n-1] of an empty array
ReturnRaiseIndex ==
    /\ pc = "loop"
    /\ n = 0
    /\ Raise("IndexError")
    /\ UNCHANGED <<x, y, s, sIsNone, return_type, delta, deltaBound, i, knots,
                   coeffs, pieces, q, value>>

\* line 96 with no pieces: Piecewise() with no argument
ReturnRaiseType ==
    /\ pc = "loop"
    /\ i > n - 1
    /\ n >= 1
    /\ return_type = "sympy"
    /\ Len(coeffs) = 0
    /\ knots' = Append(knots, x[n])
    /\ Raise("TypeError")
    /\ UNCHANGED <<x, y, s, sIsNone, return_type, delta, deltaBound, i, coeffs,
                   pieces, q, value>>

\* the points the returned Piecewise is evaluated at: every knot, the
\* middle of every piece, and one unit beyond either edge
Queries ==
    {knots[j] : j \in DOMAIN knots}
        \cup {RDiv(RAdd(knots[j], knots[j + 1]), Q(2)) : j \in 1..(Len(knots) - 1)}
        \cup {RSub(knots[1], Q(1)), RAdd(knots[Len(knots)], Q(1))}

\* spline.subs(x_sym, k), as in example.py line 37
Evaluate ==
    /\ pc = "returned"
    /\ return_type = "sympy"
    /\ \E at \in Queries :
          /\ q' = at
          /\ value' = PiecewiseAt(pieces, at)
    /\ pc' = "evaluated"
    /\ UNCHANGED <<x, y, s, sIsNone, return_type, delta, deltaBound, i, knots,
                   coeffs, pieces, err>>

Next ==
    \/ Validate
    \/ ValidateRaise
    \/ SlopesGiven
    \/ Estimate
    \/ EstimateRaise
    \/ LemmaCase
    \/ Subdivide
    \/ SubdivideRaise
    \/ Return
    \/ ReturnRaiseIndex
    \/ ReturnRaiseType
    \/ Evaluate

Spec == Init /\ [][Next]_vars

(***************************************************************************)
(* Vocabulary of the properties.                                           *)
(***************************************************************************)
Returned == pc \in {"returned", "evaluated"}

\* the preconditions of the routine: equal lengths, at least two points,
\* x strictly increasing
ValidInput ==
    /\ n >= 2
    /\ Len(y) = n
    /\ Len(s) = n \/ (sIsNone /\ s = << >>)
    /\ \A k \in 1..(n - 1) : RLt(x[k], x[k + 1])

InvalidInput ==
    \/ Len(y) # n
    \/ \E k \in 1..(n - 1) : ~RLt(x[k], x[k + 1])
    \/ ~sIsNone /\ Len(s) # n

\* piece j of the result: its length, and its value and its derivative at
\* its right end
PieceLen(j) == RSub(knots[j + 1], knots[j])

PieceEndValue(j) == Quadratic(coeffs[j], knots[j], knots[j + 1])

PieceEndSlope(j) == RAdd(coeffs[j][2], RMul(RMul(Q(2), coeffs[j][3]), PieceLen(j)))

NonDecreasing(a) == \A k \in 1..(Len(a) - 1) : RLe(a[k], a[k + 1])

\* the intervals the loop has entered so far
Entered ==
    IF Returned THEN 1..(n - 1)
    ELSE IF pc = "raised" /\ err = "UnboundLocalError" THEN 1..i
    ELSE 1..(i - 1)

\* how many of the intervals of S satisfy the lemma
LemmaCount(S) == Cardinality({k \in S : Lemma(x, y, s, k)})

(***************************************************************************)
(* The properties.                                                         *)
(***************************************************************************)
\* C1: with estimated slopes the result is continuous and interpolates the
\* data: every piece ends at the value the next piece starts with, the
\* piece that starts at a data point x[k] starts with y[k], and the last
\* piece ends at y[n-1].
C1_ContinuousInterpolant ==
    (Returned /\ sIsNone) =>
        /\ \A j \in 1..(Len(coeffs) - 1) : PieceEndValue(j) = coeffs[j + 1][1]
        /\ \A k \in 1..(n - 1) :
              \E j \in DOMAIN coeffs : knots[j] = x[k] /\ coeffs[j][1] = y[k]
        /\ PieceEndValue(Len(coeffs)) = y[n]

\* a result with estimated slopes that has an undivided and a subdivided
\* interval
C1_Witness ==
    /\ pc = "returned"
    /\ sIsNone
    /\ \E k \in 1..(n - 1) : Lemma(x, y, s, k)
    /\ \E k \in 1..(n - 1) : ~Lemma(x, y, s, k)

\* C2: for non-decreasing y and estimated slopes, the derivative of every
\* piece is >= 0 at its two ends, so the spline is non-decreasing.
C2_MonotonePreserved ==
    (Returned /\ sIsNone /\ NonDecreasing(y)) =>
        \A j \in DOMAIN coeffs :
            RLe(Q(0), coeffs[j][2]) /\ RLe(Q(0), PieceEndSlope(j))

\* C3: the returned knots start at x[0], end at x[n-1], number n to 2n-1 and
\* are strictly increasing; the divisor s[i+1] - s[i] of the second and
\* third placement is not zero.
C3_KnotsWellFormed ==
    /\ (Returned /\ ValidInput) =>
          /\ knots[1] = x[1]
          /\ knots[Len(knots)] = x[n]
          /\ n <= Len(knots) /\ Len(knots) <= 2 * n - 1
          /\ \A j \in 1..(Len(knots) - 1) : RLt(knots[j], knots[j + 1])
          /\ \A k \in 1..n : \E j \in DOMAIN knots : knots[j] = x[k]
    /\ (pc = "loop" /\ ValidInput /\ deltaBound) =>
          \A k \in 1..(n - 1) :
              (~Lemma(x, y, s, k) /\ Branch(s, delta, k) # "mid") => s[k + 1] # s[k]

\* a result in which each of the three placements put a knot
C3_Witness ==
    /\ pc = "returned"
    /\ deltaBound
    /\ \A b \in {"mid", "right", "left"} :
          \E k \in 1..(n - 1) : ~Lemma(x, y, s, k) /\ Branch(s, delta, k) = b

\* C4: a valid input with slopes supplied never raises.
C4_SuppliedSlopesAccepted ==
    (ValidInput /\ ~sIsNone) => pc # "raised"

\* C5: an input of fewer than two points never returns a result.
C5_TooShortRejected ==
    (n < 2 /\ Len(y) = n /\ (~sIsNone => Len(s) = n)) => ~Returned

\* C6: an input with mismatched lengths or an x that is not strictly
\* increasing fails at the asserts: nothing is estimated and no knot or
\* coefficient is computed.
C6_FailFast ==
    (InvalidInput /\ pc # "start") =>
        /\ pc = "raised"
        /\ err = "AssertionError"
        /\ ~deltaBound
        /\ sIsNone => s = << >>
        /\ knots = << >>
        /\ coeffs = << >>
        /\ pieces = << >>

\* a rejected input whose lengths agree and whose x repeats an abscissa
C6_Witness ==
    /\ pc = "raised"
    /\ n >= 2
    /\ Len(y) = n
    /\ sIsNone
    /\ \E k \in 1..(n - 1) : x[k] = x[k + 1]

\* C7: every interval entered contributes one knot and one triple when it
\* satisfies the lemma and two knots and two triples otherwise, and a
\* result has one triple less than it has knots.
C7_IntervalContribution ==
    (ValidInput /\ pc \in {"loop", "returned", "evaluated", "raised"}) =>
        LET total == LemmaCount(Entered) + 2 * (Cardinality(Entered) - LemmaCount(Entered))
        IN  /\ Len(knots) = total + (IF Returned THEN 1 ELSE 0)
            /\ Len(coeffs) = total
            /\ Returned => Len(coeffs) = Len(knots) - 1

\* C8: an evaluation inside [knots[0], knots[-1]] yields the quadratic of a
\* piece that contains the point, and one outside fails with a DomainError.
C8_EvaluationDomain ==
    pc = "evaluated" =>
        IF RLe(knots[1], q) /\ RLe(q, knots[Len(knots)])
        THEN /\ err = "none"
             /\ \E j \in DOMAIN coeffs :
                   /\ RLe(knots[j], q) /\ RLe(q, knots[j + 1])
                   /\ value = Quadratic(coeffs[j], knots[j], q)
        ELSE err = "DomainError"

\* C9: the estimated slopes satisfy s[0] = (3*delta[0] - s[1])/2 and
\* s[n-1] = (3*delta[n-2] - s[n-2])/2 with the final s[1] and s[n-2].
C9_EndpointSlopes ==
    (pc \in {"loop", "returned", "evaluated"} /\ sIsNone /\ n >= 2) =>
        /\ s[1] = RDiv(RSub(RMul(Q(3), delta[1]), s[2]), Q(2))
        /\ s[n] = RDiv(RSub(RMul(Q(3), delta[n - 1]), s[n - 1]), Q(2))

\* C10: the derivative of the result is s[k] on both sides of every data
\* point, and the derivative at the right end of every piece is the B of
\* the next piece.
C10_SlopesMatched ==
    (Returned /\ ValidInput) =>
        /\ \A k \in 1..(n - 1) :
              \E j \in DOMAIN coeffs : knots[j] = x[k] /\ coeffs[j][2] = s[k]
        /\ \A k \in 1..(n - 1) :
              \E j \in DOMAIN coeffs : knots[j + 1] = x[k + 1] /\ PieceEndSlope(j) = s[k + 1]
        /\ \A j \in 1..(Len(coeffs) - 1) : PieceEndSlope(j) = coeffs[j + 1][2]

\* a result for three points or more in which every interval was split
C10_Witness ==
    /\ pc = "returned"
    /\ n >= 3
    /\ Len(knots) = 2 * n - 1
    /\ \E k \in 1..(n - 1) : s[k] # s[k + 1]

=============================================================================
